---- MODULE Spec2Model ----
(***************************************************************************)
(* Drive Mode of masons-zombie-ride: the three DriveMode variants found in *)
(* the repository (fixed-timestep, lane-space, flat-road), their frame     *)
(* loop, update tick, spawner, collision test, HUD setters and restart.    *)
(*                                                                         *)
(* Numbers are fixed point.  One second is TimeScale time units, so the    *)
(* fixed step 1/60 s is 50 units and one millisecond is 3.  Speed is in    *)
(* 1/300 km/h.  The other scales are given where they are used.  Where the *)
(* code's floating point expression is not a multiple of the unit, the     *)
(* model truncates it (\div).                                              *)
(***************************************************************************)
EXTENDS Integers, Sequences, FiniteSets, TLC

VARIABLES variant, rideName, mounted, sim, hud, rafPending, staleFrames,
          elapsed, inputs, horizon, draws, obs, pure, app, env

vars == <<variant, rideName, mounted, sim, hud, rafPending, staleFrames,
          elapsed, inputs, horizon, draws, obs, pure, app, env>>

(* ------------------------------ bounds -------------------------------- *)

\* seconds of simulated time of one run that the model follows, per variant:
\* with mount, restart and exit (Spec; MaxSecondsAgain for the run after a
\* restart), and for a single run (SpecPlay)
MaxSecondsFixed == 8
MaxSecondsLane == 5
MaxSecondsFlat == 5
MaxSecondsAgain == 1
LongSeconds == 25
\* the names and rectangles the pure functions are applied to
MaxNameLen == 2
MaxRect == 2
PlaySecondsFixed == 10
PlaySecondsLane == 5
PlaySecondsFlat == 7
\* input events (key, touch) of one run that the model follows
MaxInputs == 1
\* restarts / prop changes followed
MaxRuns == 1
\* files offered to the uploader, and button clicks in App, that are followed
MaxFiles == 2
MaxClicks == 2
\* Math.random() returns k / RandDen, k in 0 .. RandDen-1
RandDen == 4

(* ------------------------------ scales -------------------------------- *)

TimeScale == 3 * 1000
MsUnits == TimeScale \div 1000
SpeedScale == 3 * 100
\* fixed-timestep variant: playerX and zombie x in 1/15000 road units
LatScale == 15 * 1000
\* fixed-timestep variant: position and offsetZ in 1/18000 world units
DistScale == 18 * 1000
\* fixed-timestep variant: score in 1/180000 points
ScoreScaleF == 180 * 1000
\* variable-timestep variants: pixels in 1/100, score in 1/1000 points
PxScale == 10 * 10
ScoreScaleV == 10 * 100

Variants == {"fixed", "lane", "flat"}

(* ------------------------------ helpers ------------------------------- *)

Max(a, b) == IF a >= b THEN a ELSE b
Min(a, b) == IF a <= b THEN a ELSE b
Abs(a) == IF a < 0 THEN -a ELSE a

\* Util.limit with the upper bound forgotten
limit_noMax(val, min, max) == Max(min, val)
\* Util.limit: Math.max(min, Math.min(max, val))
limit(val, min, max) == Max(min, Min(max, val))

\* clamp with the lower bound forgotten
clamp_noMin(v, min, max) == Min(max, v)
\* clamp: Math.max(min, Math.min(max, v))
clamp(v, min, max) == Max(min, Min(max, v))

\* Util.increase: (current + amount) % max
increase(current, amount, max) == (current + amount) % max

\* A name is the sequence of its characters as [...name] yields them, each a
\* code point.  c.charCodeAt(0): the code of a character of the basic plane,
\* the leading surrogate of any other.
charCodeAt0(c) == IF c < 65536 THEN c ELSE 55296 + ((c - 65536) \div 1024)

\* .map((c) => c.charCodeAt(0)).reduce((a, b) => a + b, 0)
RECURSIVE SumCodes(_)
SumCodes(s) == IF s = << >> THEN 0 ELSE charCodeAt0(Head(s)) + SumCodes(Tail(s))

(* ------------------------------ tuning -------------------------------- *)

\* "Mason" as UTF-16 code units
Mason == <<77, 97, 115, 111, 110>>

\* the hash without the "Mason" default
nameHash_noDefault(name) == SumCodes(name)
\* [...(rideName || "Mason")].map(c => c.charCodeAt(0)).reduce((a,b) => a+b, 0)
nameHash(name) == SumCodes(IF name = << >> THEN Mason ELSE name)

\* multipliers in hundredths
speedMultFixed(name) == 85 + (nameHash(name) % 30)
widthMultFixed(name) == 90 + (nameHash(name) % 20)
speedMultVar(name) == 90 + (nameHash(name) % 30)

baseMaxSpeedFixed == 200
baseRoadWidth == 2000
baseMaxSpeedVar == 220

\* baseMaxSpeed * speedMult, in 1/300 km/h
tunedMaxSpeedFixed(name) == (baseMaxSpeedFixed * speedMultFixed(name) * SpeedScale) \div 100
tunedRoadWidth(name) == (baseRoadWidth * widthMultFixed(name)) \div 100
tunedMaxSpeedVar(name) == (baseMaxSpeedVar * speedMultVar(name) * SpeedScale) \div 100

\* everything a render derives from rideName, in the three variants
tuning(name) ==
    [nameHash |-> nameHash(name),
     speedMultFixed |-> speedMultFixed(name), widthMultFixed |-> widthMultFixed(name),
     speedMultVar |-> speedMultVar(name),
     tunedMaxSpeedFixed |-> tunedMaxSpeedFixed(name),
     tunedRoadWidth |-> tunedRoadWidth(name),
     tunedMaxSpeedVar |-> tunedMaxSpeedVar(name)]

tunedMaxSpeed(v, name) ==
    IF v = "fixed" THEN tunedMaxSpeedFixed(name) ELSE tunedMaxSpeedVar(name)

(* ------------------------- what a tick did (ghost) --------------------- *)

\* Not program state: what one call of update did, kept so that properties of
\* a tick can be stated on the state after the frame.
\*   ran        update got past `if (!gameRunning) return`
\*   spawned    spawnZombie was called
\*   tSpawn     the timer value that was compared with the interval
\*   iSpawn     the interval it was compared with
\*   tAfter     the timer after the spawn block
\*   hits       zombies that collided in this tick
\*   dodged     zombies removed with the dodge bonus in this tick
\*   passed     zombies removed without collision in this tick
\*   late       zombies the filter processed after gameRunning became false
\*   crashScore scoreVal at the moment gameRunning became false (-1: no crash)
\*   freshHit   the zombie spawned in this tick collided in this tick
\*   bonus      the points the filter callbacks of this tick added to scoreVal
NoTick == [ran |-> FALSE, spawned |-> FALSE, tSpawn |-> 0, iSpawn |-> 0, tAfter |-> 0,
           hits |-> 0, dodged |-> 0, passed |-> 0, late |-> 0, crashScore |-> -1,
           freshHit |-> FALSE, bonus |-> 0]

(* ------------------------- fixed-timestep variant ---------------------- *)

\* const step = 1 / fps, fps = 60
step == TimeScale \div 60
accelFixed == 100
cameraHeight == 1000
segmentCount == 500
segmentLength == 200
\* dt * speedVal is (dt * speedVal) \div DistDiv in DistScale units
DistDiv == (TimeScale * SpeedScale) \div DistScale

\* keys[37] || keys[65] || touchLeft ; keys[39] || keys[68] || touchRight
steerLeftFixed(s) == ("37" \in s.keys) \/ ("65" \in s.keys) \/ s.touchLeft
steerRightFixed(s) == ("39" \in s.keys) \/ ("68" \in s.keys) \/ s.touchRight

\* spawnZombie: offsetZ = 50 + random*300, x = (random - 0.5) * 2
spawnZombieFixed(d) ==
    [offsetZ |-> 50 * DistScale + (300 * DistScale * d[1]) \div RandDen,
     x |-> ((2 * d[2] - RandDen) * LatScale) \div RandDen]

\* lastSpawn += dt; if (lastSpawn > spawnRate) { spawnZombie(); lastSpawn = 0;
\* spawnRate = Math.max(0.3, spawnRate - 0.001); }
spawnTickFixed(lastSpawn, spawnRate, dt) ==
    LET ls1 == lastSpawn + dt
        spawn == ls1 > spawnRate
    IN  [spawn |-> spawn, tested |-> ls1,
         timer |-> IF spawn THEN 0 ELSE ls1,
         interval |-> IF spawn
                      THEN Max((3 * TimeScale) \div 10, spawnRate - TimeScale \div 1000)
                      ELSE spawnRate]

\* the callback ending the run only below zero (`<` for `<=`)
filterStepFixed_belowZero(a0, z, dt) ==
    LET a == IF a0.gameRunning THEN a0 ELSE [a0 EXCEPT !.late = a0.late + 1]
        oz == z.offsetZ - (dt * a.speedVal) \div DistDiv
        z1 == [z EXCEPT !.offsetZ = oz]
    IN  IF oz < 0 THEN [a EXCEPT !.passed = a.passed + 1]
        ELSE IF oz < cameraHeight * DistScale
                /\ Abs(z1.x - a.playerX) < (3 * LatScale) \div 10
             THEN LET h == a.healthVal - 20
                      sc == a.scoreVal + 10 * ScoreScaleF
                      a1 == [a EXCEPT !.healthVal = h, !.scoreVal = sc,
                                      !.hits = a.hits + 1]
                  IN  IF h < 0
                      THEN [a1 EXCEPT !.gameRunning = FALSE, !.gameOver = TRUE,
                                      !.crashScore = IF a.gameRunning THEN sc
                                                     ELSE a.crashScore]
                      ELSE a1
             ELSE [a EXCEPT !.kept = Append(a.kept, z1)]
\* one callback of zombies.filter(...): a is the state the closure writes
filterStepFixed(a0, z, dt) ==
    LET a == IF a0.gameRunning THEN a0 ELSE [a0 EXCEPT !.late = a0.late + 1]
        oz == z.offsetZ - (dt * a.speedVal) \div DistDiv
        z1 == [z EXCEPT !.offsetZ = oz]
    IN  IF oz < 0 THEN [a EXCEPT !.passed = a.passed + 1]
        ELSE IF oz < cameraHeight * DistScale
                /\ Abs(z1.x - a.playerX) < (3 * LatScale) \div 10
             THEN LET h == a.healthVal - 20
                      sc == a.scoreVal + 10 * ScoreScaleF
                      a1 == [a EXCEPT !.healthVal = h, !.scoreVal = sc,
                                      !.hits = a.hits + 1]
                  IN  IF h <= 0
                      THEN [a1 EXCEPT !.gameRunning = FALSE, !.gameOver = TRUE,
                                      !.crashScore = IF a.gameRunning THEN sc
                                                     ELSE a.crashScore]
                      ELSE a1
             ELSE [a EXCEPT !.kept = Append(a.kept, z1)]

RECURSIVE filterFixed(_, _, _)
filterFixed(a, zs, dt) ==
    IF zs = << >> THEN a
    ELSE LET a1 == filterStepFixed(a, Head(zs), dt)
         IN  filterFixed([a1 EXCEPT !.lastHit = a1.hits > a.hits], Tail(zs), dt)

\* update(dt) of the fixed-timestep variant; st = [s |-> sim, h |-> hud],
\* d is the pair of Math.random() draws a spawn in this tick would use
updateFixed(st, dt, d) ==
    LET s == st.s
    IN  IF ~s.gameRunning THEN [st EXCEPT !.g = NoTick]
        ELSE
        LET speed1 == limit(s.speedVal + (accelFixed * dt * SpeedScale) \div TimeScale,
                            0, s.maxSpeed)
            pos1 == increase(s.position, (dt * speed1) \div DistDiv,
                             segmentCount * segmentLength * DistScale)
            dx == IF speed1 = 0 THEN (dt * 4 * LatScale) \div TimeScale
                  ELSE (((dt * 4 * LatScale) \div TimeScale) * speed1) \div s.maxSpeed
            x1 == IF steerLeftFixed(s) THEN s.playerX - dx ELSE s.playerX
            x2 == IF steerRightFixed(s) THEN x1 + dx ELSE x1
            x3 == limit(x2, -2 * LatScale, 2 * LatScale)
            sp == spawnTickFixed(s.lastSpawn, s.spawnRate, dt)
            zs1 == IF sp.spawn THEN Append(s.zombies, spawnZombieFixed(d)) ELSE s.zombies
            a0 == [speedVal |-> speed1, playerX |-> x3, healthVal |-> s.healthVal,
                   scoreVal |-> s.scoreVal, gameRunning |-> TRUE,
                   gameOver |-> st.h.gameOver, hits |-> 0, passed |-> 0, late |-> 0,
                   crashScore |-> -1, lastHit |-> FALSE, kept |-> << >>]
            a == filterFixed(a0, zs1, dt)
            score1 == a.scoreVal + (dt * speed1) \div DistDiv
        IN  [s |-> [s EXCEPT !.speedVal = speed1, !.position = pos1, !.playerX = x3,
                             !.lastSpawn = sp.timer, !.spawnRate = sp.interval,
                             !.zombies = a.kept, !.healthVal = a.healthVal,
                             !.scoreVal = score1, !.gameRunning = a.gameRunning],
             h |-> [st.h EXCEPT !.gameOver = a.gameOver,
                                !.speed = speed1 \div SpeedScale,
                                !.health = a.healthVal,
                                !.score = score1 \div ScoreScaleF],
             g |-> [ran |-> TRUE, spawned |-> sp.spawn, tSpawn |-> sp.tested,
                    iSpawn |-> s.spawnRate, tAfter |-> sp.timer, hits |-> a.hits,
                    dodged |-> 0, passed |-> a.passed, late |-> a.late,
                    crashScore |-> a.crashScore,
                    freshHit |-> sp.spawn /\ a.lastHit,
                    bonus |-> (a.scoreVal - s.scoreVal) \div ScoreScaleF]]

(* ----------------------- variable-timestep variants -------------------- *)

\* canvas.clientWidth || 320, canvas.clientHeight || 480
canvasWidth == 320
canvasHeight == 480
accelVar == 180

\* lane-space geometry, in 1/100 px
horizonY == (canvasHeight * PxScale * 38) \div 100
roadTopY == horizonY
roadBottomY == canvasHeight * PxScale
roadCenterX == (canvasWidth * PxScale) \div 2
roadTopWidth == (canvasWidth * PxScale * 2) \div 10
roadBottomWidth == (canvasWidth * PxScale * 95) \div 100
carWidthLane == (canvasWidth * PxScale * 12) \div 100
carHeightLane == (carWidthLane * 14) \div 10
carYLane == (canvasHeight * PxScale * 7) \div 10
carX0Lane == roadCenterX - carWidthLane \div 2

\* flat-road geometry, in 1/100 px
roadWidth == (canvasWidth * PxScale * 6) \div 10
roadX == (canvasWidth * PxScale - roadWidth) \div 2
carWidthFlat == (roadWidth * 18) \div 100
carHeightFlat == (carWidthFlat * 14) \div 10
carX0Flat == (canvasWidth * PxScale) \div 2 - carWidthFlat \div 2
carYFlat == (canvasHeight * PxScale * 65) \div 100
carMinX == roadX + (roadWidth * 5) \div 100
carMaxX == roadX + (roadWidth * 95) \div 100 - carWidthFlat

\* a fraction t in [0,1] is kept in 1/10000
FracScale == 100 * 100
lerp(a, b, t) == a + ((b - a) * t) \div FracScale
roadT(y) == clamp(((y - roadTopY) * FracScale) \div (roadBottomY - roadTopY), 0, FracScale)

\* zombieScreenX(lane, y, size); lane in 1/100
zombieScreenX(lane, y, size) ==
    LET halfW == lerp(roadTopWidth \div 2, roadBottomWidth \div 2, roadT(y))
        leftEdge == roadCenterX - halfW
        rightEdge == roadCenterX + halfW
    IN  leftEdge + ((lane + 100) * (rightEdge - leftEdge)) \div 200 - size \div 2

\* clamp bounds of carX in the lane-space variant
leftEdgeCar == roadCenterX - lerp(roadTopWidth \div 2, roadBottomWidth \div 2, roadT(carYLane))
rightEdgeCar == roadCenterX + lerp(roadTopWidth \div 2, roadBottomWidth \div 2, roadT(carYLane))
carLoLane == leftEdgeCar + 10 * PxScale
carHiLane == rightEdgeCar - carWidthLane - 10 * PxScale

\* spawnZombie (lane-space): draws are lane, size, speed
spawnZombieLane(d) ==
    LET size == 30 * PxScale + (25 * PxScale * d[2]) \div RandDen
    IN  [lane |-> (160 * d[1]) \div RandDen - 80,
         x |-> 0,
         y |-> roadTopY - size - 20 * PxScale,
         size |-> size,
         speed |-> 90 * PxScale + (80 * PxScale * d[3]) \div RandDen]

\* spawnZombie (flat-road): draws are size, x, speed
spawnZombieFlat(d) ==
    LET edgePadding == (roadWidth * 5) \div 100
        laneMinX == roadX + edgePadding
        laneMaxX == roadX + roadWidth - edgePadding
        size == 30 * PxScale + (25 * PxScale * d[1]) \div RandDen
    IN  [lane |-> 0,
         x |-> laneMinX + (d[2] * (laneMaxX - laneMinX - size)) \div RandDen,
         y |-> 0 - size,
         size |-> size,
         speed |-> 90 * PxScale + (80 * PxScale * d[3]) \div RandDen]

\* COLLISION (AABB)
rectanglesOverlap(x1, y1, w1, h1, x2, y2, w2, h2) ==
    ~(x1 + w1 < x2 \/ x2 + w2 < x1 \/ y1 + h1 < y2 \/ y2 + h2 < y1)

carWidthOf(v) == IF v = "lane" THEN carWidthLane ELSE carWidthFlat
carHeightOf(v) == IF v = "lane" THEN carHeightLane ELSE carHeightFlat
carYOf(v) == IF v = "lane" THEN carYLane ELSE carYFlat
carLoOf(v) == IF v = "lane" THEN carLoLane ELSE carMinX
carHiOf(v) == IF v = "lane" THEN carHiLane ELSE carMaxX
zombieXOf(v, z) == IF v = "lane" THEN zombieScreenX(z.lane, z.y, z.size) ELSE z.x

\* keys["ArrowLeft"] || keys["a"] || touchLeft ; keys["ArrowRight"] || keys["d"] || touchRight
steerLeftVar(s) == ("ArrowLeft" \in s.keys) \/ ("a" \in s.keys) \/ s.touchLeft
steerRightVar(s) == ("ArrowRight" \in s.keys) \/ ("d" \in s.keys) \/ s.touchRight

\* the spawn block with `spawnTimer = 0` forgotten
spawnTickVar_noReset(spawnTimer, spawnInterval, dt) ==
    LET t1 == spawnTimer + dt
        spawn == t1 >= spawnInterval
    IN  [spawn |-> spawn, tested |-> t1, timer |-> t1,
         interval |-> IF spawn
                      THEN clamp(spawnInterval - (2 * TimeScale) \div 100,
                                 (45 * TimeScale) \div 100, 2 * TimeScale)
                      ELSE spawnInterval]
\* spawnTimer += dt; if (spawnTimer >= spawnInterval) { spawnZombie();
\* spawnTimer = 0; spawnInterval = clamp(spawnInterval - 0.02, 0.45, 2.0); }
spawnTickVar(spawnTimer, spawnInterval, dt) ==
    LET t1 == spawnTimer + dt
        spawn == t1 >= spawnInterval
    IN  [spawn |-> spawn, tested |-> t1,
         timer |-> IF spawn THEN 0 ELSE t1,
         interval |-> IF spawn
                      THEN clamp(spawnInterval - (2 * TimeScale) \div 100,
                                 (45 * TimeScale) \div 100, 2 * TimeScale)
                      ELSE spawnInterval]

\* the collision branch ending the run only below zero (`<` for `<=`)
collideVar_belowZero(a) ==
    LET h == a.healthVal - 25
        a1 == [a EXCEPT !.hits = a.hits + 1]
    IN  IF h < 0
        THEN [a1 EXCEPT !.healthVal = 0, !.gameRunning = FALSE, !.gameOver = TRUE,
                        !.crashScore = IF a.gameRunning THEN a.scoreVal
                                       ELSE a.crashScore]
        ELSE [a1 EXCEPT !.healthVal = h]
\* the collision branch with `healthVal = 0` forgotten
collideVar_noClamp(a) ==
    LET h == a.healthVal - 25
        a1 == [a EXCEPT !.hits = a.hits + 1, !.healthVal = h]
    IN  IF h <= 0
        THEN [a1 EXCEPT !.gameRunning = FALSE, !.gameOver = TRUE,
                        !.crashScore = IF a.gameRunning THEN a.scoreVal
                                       ELSE a.crashScore]
        ELSE a1
\* the collision branch with a collision that costs 25 points as well
collideVar_fined(a) ==
    LET h == a.healthVal - 25
        a1 == [a EXCEPT !.hits = a.hits + 1, !.scoreVal = a.scoreVal - 25 * ScoreScaleV]
    IN  IF h <= 0
        THEN [a1 EXCEPT !.healthVal = 0, !.gameRunning = FALSE, !.gameOver = TRUE,
                        !.crashScore = IF a.gameRunning THEN a1.scoreVal
                                       ELSE a.crashScore]
        ELSE [a1 EXCEPT !.healthVal = h]
\* the collision branch of the filter callback: healthVal -= 25 and, at or
\* below zero, healthVal = 0; gameRunning = false; setGameOver(true)
collideVar(a) ==
    LET h == a.healthVal - 25
        a1 == [a EXCEPT !.hits = a.hits + 1]
    IN  IF h <= 0
        THEN [a1 EXCEPT !.healthVal = 0, !.gameRunning = FALSE, !.gameOver = TRUE,
                        !.crashScore = IF a.gameRunning THEN a.scoreVal
                                       ELSE a.crashScore]
        ELSE [a1 EXCEPT !.healthVal = h]

\* the filter callback testing the zombie where it was before it is moved
filterStepVar_testFirst(v, a0, z, dt) ==
    LET a == IF a0.gameRunning THEN a0 ELSE [a0 EXCEPT !.late = a0.late + 1]
        y1 == z.y + (z.speed * dt) \div TimeScale
                  + (((80 * PxScale) \div 1000) * dt * a.speedVal)
                        \div ((TimeScale \div 1000) * a.maxSpeed)
        z1 == [z EXCEPT !.y = y1]
        carHit == rectanglesOverlap(a.carX, carYOf(v), carWidthOf(v), carHeightOf(v),
                                    zombieXOf(v, z), z.y, z.size, z.size)
    IN  IF carHit THEN collideVar(a)
        ELSE IF y1 > a.height + z1.size
             THEN [a EXCEPT !.scoreVal = a.scoreVal + 25 * ScoreScaleV,
                            !.dodged = a.dodged + 1, !.passed = a.passed + 1]
             ELSE [a EXCEPT !.kept = Append(a.kept, z1)]
\* one callback of zombies.filter(...) in the variable-timestep variants
filterStepVar(v, a0, z, dt) ==
    LET a == IF a0.gameRunning THEN a0 ELSE [a0 EXCEPT !.late = a0.late + 1]
        y1 == z.y + (z.speed * dt) \div TimeScale
                  + (((80 * PxScale) \div 1000) * dt * a.speedVal)
                        \div ((TimeScale \div 1000) * a.maxSpeed)
        z1 == [z EXCEPT !.y = y1]
        carHit == rectanglesOverlap(a.carX, carYOf(v), carWidthOf(v), carHeightOf(v),
                                    zombieXOf(v, z1), y1, z1.size, z1.size)
    IN  IF carHit THEN collideVar(a)
        ELSE IF y1 > a.height + z1.size
             THEN [a EXCEPT !.scoreVal = a.scoreVal + 25 * ScoreScaleV,
                            !.dodged = a.dodged + 1, !.passed = a.passed + 1]
             ELSE [a EXCEPT !.kept = Append(a.kept, z1)]

RECURSIVE filterVar(_, _, _, _)
filterVar(v, a, zs, dt) ==
    IF zs = << >> THEN a
    ELSE LET a1 == filterStepVar(v, a, Head(zs), dt)
         IN  filterVar(v, [a1 EXCEPT !.lastHit = a1.hits > a.hits], Tail(zs), dt)

\* update(dt) of the lane-space (v = "lane") and flat-road (v = "flat") variants;
\* d is the triple of Math.random() draws a spawn in this tick would use
updateVar(v, st, dt, d) ==
    LET s == st.s
    IN  IF ~s.gameRunning THEN [st EXCEPT !.g = NoTick]
        ELSE
        LET speed1 == clamp(s.speedVal + (accelVar * dt * SpeedScale) \div TimeScale,
                            0, s.maxSpeed)
            \* steering * dt, steering = (speedVal / maxSpeed) * 260
            sdt == (((260 * PxScale) \div 1000) * dt * speed1)
                       \div ((TimeScale \div 1000) * s.maxSpeed)
            x1 == IF steerLeftVar(s) THEN s.carX - sdt ELSE s.carX
            x2 == IF steerRightVar(s) THEN x1 + sdt ELSE x1
            x3 == clamp(x2, carLoOf(v), carHiOf(v))
            stripe1 == (s.laneStripeOffset
                          + (14 * dt * speed1) \div ((TimeScale \div 1000) * s.maxSpeed))
                       % FracScale
            sp == spawnTickVar(s.spawnTimer, s.spawnInterval, dt)
            newZ == IF v = "lane" THEN spawnZombieLane(d) ELSE spawnZombieFlat(d)
            zs1 == IF sp.spawn THEN Append(s.zombies, newZ) ELSE s.zombies
            a0 == [speedVal |-> speed1, maxSpeed |-> s.maxSpeed, carX |-> x3,
                   height |-> s.height, healthVal |-> s.healthVal,
                   scoreVal |-> s.scoreVal, gameRunning |-> TRUE,
                   gameOver |-> st.h.gameOver, hits |-> 0, dodged |-> 0,
                   passed |-> 0, late |-> 0, crashScore |-> -1, lastHit |-> FALSE,
                   kept |-> << >>]
            a == filterVar(v, a0, zs1, dt)
            \* (dt * speedVal) / 12 in 1/1000 points
            score1 == a.scoreVal
                        + (dt * speed1) \div ((TimeScale * SpeedScale * 12) \div ScoreScaleV)
        IN  [s |-> [s EXCEPT !.speedVal = speed1, !.carX = x3,
                             !.laneStripeOffset = stripe1,
                             !.spawnTimer = sp.timer, !.spawnInterval = sp.interval,
                             !.zombies = a.kept, !.healthVal = a.healthVal,
                             !.scoreVal = score1, !.gameRunning = a.gameRunning],
             h |-> [st.h EXCEPT !.gameOver = a.gameOver,
                                !.speed = (2 * speed1 + SpeedScale) \div (2 * SpeedScale),
                                !.health = a.healthVal,
                                !.score = (2 * score1 + ScoreScaleV) \div (2 * ScoreScaleV)],
             g |-> [ran |-> TRUE, spawned |-> sp.spawn, tSpawn |-> sp.tested,
                    iSpawn |-> s.spawnInterval, tAfter |-> sp.timer, hits |-> a.hits,
                    dodged |-> a.dodged, passed |-> a.passed, late |-> a.late,
                    crashScore |-> a.crashScore,
                    freshHit |-> sp.spawn /\ a.lastHit,
                    bonus |-> (a.scoreVal - s.scoreVal) \div ScoreScaleV]]

(* ------------------------------ frame loop ---------------------------- *)

\* Ghost of a frame: the ticks that ran, the spawns, and the last tick that
\* spawned, the tick with most collisions, the crash tick if there was one,
\* and the number of ticks whose own spawn collided.
NoFrame == [ticks |-> 0, spawns |-> 0, spawnTick |-> NoTick, hitTick |-> NoTick,
            crashTick |-> NoTick, freshHits |-> 0]

addTick(f, g) ==
    IF ~g.ran THEN f
    ELSE [ticks |-> f.ticks + 1,
          spawns |-> f.spawns + (IF g.spawned THEN 1 ELSE 0),
          spawnTick |-> IF g.spawned THEN g ELSE f.spawnTick,
          hitTick |-> IF g.hits > f.hitTick.hits THEN g ELSE f.hitTick,
          crashTick |-> IF g.crashScore >= 0 THEN g ELSE f.crashTick,
          freshHits |-> f.freshHits + (IF g.freshHit THEN 1 ELSE 0)]

\* the loop with `if` in the place of `while`: one update a frame at most
drain_once(r, ds) ==
    IF r.acc < step THEN r
    ELSE LET d == ds[Min(r.f.spawns + 1, Len(ds))]
             u == updateFixed([s |-> r.s, h |-> r.h, g |-> NoTick], step, d)
         IN  [s |-> u.s, h |-> u.h, acc |-> r.acc - step, f |-> addTick(r.f, u.g),
              calls |-> r.calls + 1, dts |-> r.dts \cup {step}]
\* while (accumulator >= step) { update(step); accumulator -= step; }
\* r = [s, h, acc, f, calls, dts]; ds are the draws of the frame's spawns, in
\* order; calls counts the calls of update and dts holds the deltas they got
RECURSIVE drain(_, _)
drain(r, ds) ==
    IF r.acc < step THEN r
    ELSE LET d == ds[Min(r.f.spawns + 1, Len(ds))]
             u == updateFixed([s |-> r.s, h |-> r.h, g |-> NoTick], step, d)
         IN  drain([s |-> u.s, h |-> u.h, acc |-> r.acc - step,
                    f |-> addTick(r.f, u.g),
                    calls |-> r.calls + 1, dts |-> r.dts \cup {step}], ds)

\* the delta of a frame with Math.min forgotten
frameDt_noClamp(v, gap) == gap * MsUnits
\* const dt = Math.min(1, (time - lastTime) / 1000), Math.min(0.05, ...) in the
\* variable-timestep variants; gap = time - lastTime in ms
frameDt(v, gap) == IF v = "fixed" THEN Min(TimeScale, gap * MsUnits)
                   ELSE Min((5 * TimeScale) \div 100, gap * MsUnits)

\* loop(time) of the fixed-timestep variant; gap = time - lastTime in ms
loopFixed(s, h, gap, ds) ==
    LET dt == frameDt("fixed", gap)
        r == drain([s |-> s, h |-> h, acc |-> s.accumulator + dt, f |-> NoFrame,
                    calls |-> 0, dts |-> {}], ds)
    IN  [s |-> [r.s EXCEPT !.accumulator = r.acc], h |-> r.h, f |-> r.f,
         calls |-> r.calls, dts |-> r.dts]

\* loop(time) of the variable-timestep variants
loopVar(v, s, h, gap, ds) ==
    LET dt == frameDt(v, gap)
        u == updateVar(v, [s |-> s, h |-> h, g |-> NoTick], dt, ds[1])
    IN  [s |-> u.s, h |-> u.h, f |-> addTick(NoFrame, u.g)]

(* --------------------------- component state -------------------------- *)

MaxElapsed(v) ==
    (IF v = "fixed" THEN MaxSecondsFixed
     ELSE IF v = "lane" THEN MaxSecondsLane ELSE MaxSecondsFlat) * TimeScale
PlayElapsed(v) ==
    (IF v = "fixed" THEN PlaySecondsFixed
     ELSE IF v = "lane" THEN PlaySecondsLane ELSE PlaySecondsFlat) * TimeScale

\* the closure state created by one run of the effect (the `let`s and consts)
NewSim(v, name) ==
    [speedVal |-> 0, maxSpeed |-> tunedMaxSpeed(v, name),
     healthVal |-> 100, scoreVal |-> 0, gameRunning |-> TRUE,
     zombies |-> << >>, keys |-> {}, touchLeft |-> FALSE, touchRight |-> FALSE,
     position |-> 0, playerX |-> 0, lastSpawn |-> 0,
     spawnRate |-> IF v = "fixed" THEN (15 * TimeScale) \div 10 ELSE 0,
     accumulator |-> 0,
     carX |-> IF v = "lane" THEN carX0Lane ELSE IF v = "flat" THEN carX0Flat ELSE 0,
     spawnTimer |-> 0,
     spawnInterval |-> IF v = "fixed" THEN 0 ELSE TimeScale,
     laneStripeOffset |-> 0,
     height |-> IF v = "fixed" THEN 0 ELSE canvasHeight * PxScale]

\* useState(0), useState(100), useState(0), useState(false), useState(0)
NewHud == [speed |-> 0, health |-> 100, score |-> 0, gameOver |-> FALSE, runId |-> 0]

\* ride names, as sequences of UTF-16 code units: "" and "Y"
RideNames == {<< >>, <<89>>}

\* time - lastTime of a frame, in ms
FrameGaps(v) == IF v = "fixed" THEN {500, 1700} ELSE {0, 70}

\* the Math.random() draws of one spawnZombie call
SpawnDraws(v) ==
    IF v = "fixed" THEN {<<RandDen - 1, x>> : x \in {RandDen \div 2, RandDen - 1}}
    ELSE IF v = "lane" THEN {<<a, 0, RandDen - 1>> : a \in {0, RandDen \div 2}}
    ELSE {<<RandDen - 1, RandDen \div 2, RandDen - 1>>,
          <<RandDen - 1, 0, 0>>, <<RandDen - 1, 0, RandDen - 1>>}

\* a placement that a car left in the middle of the road never touches
QuietDraw(v) == IF v = "lane" THEN <<0, 0, RandDen - 1>> ELSE <<RandDen - 1, 0, RandDen - 1>>

KeyNames(v) == IF v = "fixed" THEN {"37", "39"} ELSE {"ArrowLeft", "ArrowRight"}

PureIdle == [op |-> "none"]

(* ------------------------ App and ImageUploader ------------------------ *)

\* A value that may be null is a sequence of at most one element: << >> is
\* null, <<v>> is v.  A MIME type is the sequence of its characters.
imagePng == <<"i", "m", "a", "g", "e", "/", "p", "n", "g">>
imageOnly == <<"i", "m", "a", "g", "e">>
textPlain == <<"t", "e", "x", "t", "/", "p", "l", "a", "i", "n">>

\* String.prototype.startsWith
startsWith(str, prefix) ==
    /\ Len(str) >= Len(prefix)
    /\ SubSeq(str, 1, Len(prefix)) = prefix

\* the messages of ImageUploader and App
notAnImage == "Please upload a valid image file (JPG, PNG, WebP)."
tooLarge == "File size too large. Please upload an image under 5MB."
noVehicle == "Mason needs a vehicle to upgrade! Upload a photo first."
malfunction == "Garage malfunction. Try uploading a smaller image."
initiating == "Initiating Garage Protocol..."
steps == <<"Scanning chassis integrity...",
           "Welding reinforced steel plating...",
           "Mounting roof-top zombie shredders...",
           "Painting \"MASON\" insignia on doors...",
           "Applying radioactive decay effects...",
           "Finalizing survival modifications...">>

\* 5 * 1024 * 1024
maxFileSize == 5 * 1024 * 1024

\* the checks of handleFileChange, without the size check
checkFile_noSizeCheck(file) ==
    IF ~startsWith(file.type, <<"i", "m", "a", "g", "e", "/">>) THEN <<notAnImage>>
    ELSE << >>
\* the checks of handleFileChange on a file: the error it sets (null: the file
\* is read)
checkFile(file) ==
    IF ~startsWith(file.type, <<"i", "m", "a", "g", "e", "/">>) THEN <<notAnImage>>
    ELSE IF file.size > maxFileSize THEN <<tooLarge>>
    ELSE << >>

\* reader.result of readAsDataURL(file): a data: URL of the file's type and
\* bytes, or null when the read failed
dataURL(file, ok) == IF ok THEN <<[mime |-> file.type, bytes |-> file.size]>> ELSE << >>

\* the state of ImageUploader (uploadError, readers: the files being read by a
\* FileReader) and of App (useState of sourceImage, generatedImage, loading,
\* error), the generateZombieCar calls in flight with the stepIndex of their
\* setInterval (calls), the intervals left running (timers), the
\* handleShareImage calls in flight (sharing), and what has gone out:
\* invocations of navigator.share (shareCalls), of them resolved (shared),
\* link.click() downloads (downloads); files and clicks count the events.
\* last is not program state: the handler that ran last and its input; nor are
\* lastValid, the last file that passed the checks of handleFileChange, and
\* readFailed, whether a read has ended without a result.
NewApp ==
    [uploadError |-> << >>, readers |-> << >>,
     sourceImage |-> << >>, generatedImage |-> << >>,
     loading |-> [isLoading |-> FALSE, message |-> ""],
     error |-> << >>,
     calls |-> << >>, timers |-> << >>, sharing |-> << >>,
     shareCalls |-> 0, shared |-> 0, downloads |-> 0,
     files |-> 0, clicks |-> 0,
     last |-> [op |-> "none"], lastValid |-> << >>, readFailed |-> FALSE]

(* ------------------- what the effect attaches and creates -------------- *)

\* canvasRef.current and canvas.getContext("2d") when the effect runs: both
\* there, no canvas, or a canvas that gives no 2D context
Canvases == {"ok", "missing", "noContext"}

\* the listeners of the effect: on window (resize, keydown, keyup) and on the
\* canvas (touchstart, touchend)
Listeners == {"resize", "keydown", "keyup", "touchstart", "touchend"}

\* nothing attached, no Audio object made
NoEnv(canvas) == [canvas |-> canvas, listeners |-> {}, engine |-> "none", zombie |-> "none"]

\* the guard with the test of the context forgotten
effectRuns_noContextCheck(canvas) == canvas # "missing"
\* if (!canvas) return; const ctx = canvas.getContext("2d"); if (!ctx) return;
effectRuns(canvas) == canvas = "ok"

\* the effect body: resize listener, new Audio("/engine.mp3"),
\* new Audio("/zombie.mp3"), key and touch listeners
runEffect(e) ==
    IF effectRuns(e.canvas)
    THEN [e EXCEPT !.listeners = Listeners, !.engine = "paused", !.zombie = "idle"]
    ELSE e

\* the cleanup returned by the effect: five removeEventListener calls and
\* if (engineAudioRef.current) engineAudioRef.current.pause()
cleanup(e) ==
    [e EXCEPT !.listeners = {},
              !.engine = IF e.engine = "none" THEN "none" ELSE "paused"]

\* the sounds after a frame with result r: the engine plays above 5 km/h
\* while the run goes on and is paused otherwise and at the crash; a spawn
\* starts the zombie cue from its beginning
audioAfter(e, r) ==
    [e EXCEPT !.engine = IF r.f.ticks = 0 \/ e.engine = "none" THEN e.engine
                         ELSE IF r.s.gameRunning /\ r.s.speedVal > 5 * SpeedScale
                              THEN "playing" ELSE "paused",
              !.zombie = IF r.f.spawns > 0 /\ e.zombie # "none" THEN "playing"
                         ELSE e.zombie]

\* the closure state of a component whose effect has not run
Unstarted(v, name) == [NewSim(v, name) EXCEPT !.gameRunning = FALSE]

Init ==
    /\ variant \in Variants
    /\ rideName \in RideNames
    /\ mounted = TRUE
    /\ env \in {runEffect(NoEnv(c)) : c \in Canvases}
    /\ sim = IF effectRuns(env.canvas) THEN NewSim(variant, rideName)
             ELSE Unstarted(variant, rideName)
    /\ hud = NewHud
    /\ rafPending = effectRuns(env.canvas)
    /\ staleFrames = 0
    /\ elapsed = 0
    /\ inputs = 0
    /\ horizon = MaxElapsed(variant)
    /\ draws = SpawnDraws(variant)
    /\ obs = NoFrame
    /\ pure = PureIdle
    /\ app = NewApp

\* loop(time) for the frame gap and the draws given
loop(v, s, h, gap, ds) ==
    IF v = "fixed" THEN loopFixed(s, h, gap, ds) ELSE loopVar(v, s, h, gap, ds)

\* the end of loop with the test of gameRunning forgotten
requestNext_always(gameRunning) == TRUE
\* if (gameRunning) { requestAnimationFrame(loop); } at the end of loop
requestNext(gameRunning) == gameRunning

\* render() with a road that scrolls while it is drawn
render_scrolling(v, s) ==
    [s |-> IF v = "fixed" THEN [s EXCEPT !.position = s.position + 1]
                          ELSE [s EXCEPT !.laneStripeOffset = s.laneStripeOffset + 1],
     drawn |-> [car |-> IF v = "fixed" THEN s.playerX ELSE s.carX, zombies |-> Len(s.zombies)]]
\* render(): what the closure's variables are once the frame is drawn, and
\* what was drawn: the car at its lateral position and one sprite for each zombie
render(v, s) ==
    [s |-> s,
     drawn |-> [car |-> IF v = "fixed" THEN s.playerX ELSE s.carX, zombies |-> Len(s.zombies)]]

\* one animation frame of the running effect: loop(time).  The draws matter
\* only to a frame in which a zombie is spawned; a frame the model follows
\* spawns at most once.
Frame ==
    /\ rafPending
    /\ elapsed < horizon
    /\ \E gap \in FrameGaps(variant) :
         /\ \E r0 \in {loop(variant, sim, hud, gap, <<CHOOSE d \in draws : TRUE>>)} :
              \E d \in IF r0.f.spawns = 0 THEN {<< >>} ELSE draws :
                 \E r \in {IF d = << >> THEN r0 ELSE loop(variant, sim, hud, gap, <<d>>)} :
                    /\ r.f.spawns <= 1
                    /\ sim' = render(variant, r.s).s
                    /\ hud' = r.h
                    /\ obs' = r.f
                    /\ rafPending' = requestNext(r.s.gameRunning)
                    /\ env' = audioAfter(env, r)
         /\ elapsed' = elapsed + frameDt(variant, gap)
    /\ UNCHANGED <<variant, draws, rideName, mounted, staleFrames, inputs, horizon, pure, app>>

\* a frame that was requested by an effect that has since been cleaned up:
\* update returns at once (gameRunning is false), render, no new request
StaleFrame ==
    /\ staleFrames > 0
    /\ staleFrames' = staleFrames - 1
    /\ sim' = render(variant, sim).s
    /\ UNCHANGED <<variant, draws, rideName, mounted, hud, rafPending, elapsed, inputs,
                   horizon, obs, pure, app, env>>

\* handleKeyDown / handleKeyUp
KeyDown ==
    /\ "keydown" \in env.listeners
    /\ \E k \in KeyNames(variant) : sim' = [sim EXCEPT !.keys = sim.keys \cup {k}]
    /\ inputs < MaxInputs
    /\ inputs' = inputs + (IF sim' = sim THEN 0 ELSE 1)
    /\ UNCHANGED <<variant, draws, rideName, mounted, hud, rafPending, staleFrames, elapsed,
                   horizon, obs, pure, app, env>>

KeyUp ==
    /\ "keyup" \in env.listeners
    /\ \E k \in KeyNames(variant) : sim' = [sim EXCEPT !.keys = sim.keys \ {k}]
    /\ inputs < MaxInputs
    /\ inputs' = inputs + (IF sim' = sim THEN 0 ELSE 1)
    /\ UNCHANGED <<variant, draws, rideName, mounted, hud, rafPending, staleFrames, elapsed,
                   horizon, obs, pure, app, env>>

\* handleTouchStart: the touch is left (TRUE) or right of the canvas middle
TouchStart ==
    /\ "touchstart" \in env.listeners
    /\ \E left \in BOOLEAN :
         sim' = IF left THEN [sim EXCEPT !.touchLeft = TRUE]
                ELSE [sim EXCEPT !.touchRight = TRUE]
    /\ inputs < MaxInputs
    /\ inputs' = inputs + (IF sim' = sim THEN 0 ELSE 1)
    /\ UNCHANGED <<variant, draws, rideName, mounted, hud, rafPending, staleFrames, elapsed,
                   horizon, obs, pure, app, env>>

TouchEnd ==
    /\ "touchend" \in env.listeners
    /\ sim' = [sim EXCEPT !.touchLeft = FALSE, !.touchRight = FALSE]
    /\ inputs < MaxInputs
    /\ inputs' = inputs + (IF sim' = sim THEN 0 ELSE 1)
    /\ UNCHANGED <<variant, draws, rideName, mounted, hud, rafPending, staleFrames, elapsed,
                   horizon, obs, pure, app, env>>

\* the effect's cleanup followed by the effect body, for the props given
RerunEffect(name) ==
    /\ staleFrames' = staleFrames + (IF rafPending THEN 1 ELSE 0)
    /\ sim' = NewSim(variant, name)
    /\ rafPending' = TRUE
    /\ elapsed' = 0
    /\ inputs' = 0
    /\ obs' = NoFrame
    /\ horizon' = MaxSecondsAgain * TimeScale
    /\ env' = runEffect(cleanup(env))

\* a restart that resets the HUD and revives the old run's state in place
HandleRestart_keepsState ==
    /\ mounted
    /\ hud.gameOver
    /\ hud.runId < MaxRuns
    /\ hud' = [hud EXCEPT !.gameOver = FALSE, !.health = 100, !.speed = 0,
                          !.score = 0, !.runId = hud.runId + 1]
    /\ sim' = [sim EXCEPT !.gameRunning = TRUE, !.healthVal = 100, !.speedVal = 0,
                          !.scoreVal = 0]
    /\ rafPending' = TRUE
    /\ elapsed' = 0
    /\ inputs' = 0
    /\ obs' = NoFrame
    /\ horizon' = MaxSecondsAgain * TimeScale
    /\ UNCHANGED <<variant, draws, rideName, mounted, staleFrames, pure, app, env>>
\* handleRestart ("Have another go", shown in the game-over overlay)
HandleRestart ==
    /\ mounted
    /\ hud.gameOver
    /\ hud.runId < MaxRuns
    /\ hud' = [hud EXCEPT !.gameOver = FALSE, !.health = 100, !.speed = 0,
                          !.score = 0, !.runId = hud.runId + 1]
    /\ RerunEffect(rideName)
    /\ UNCHANGED <<variant, draws, rideName, mounted, pure, app>>

\* the parent renders the component with another rideName, or with the same
\* rideName and another carImageUrl: both are dependencies of the effect,
\* which is cleaned up and run again; no state of the HUD is set.  Followed
\* from the game-over overlay of a crashed run only.
ChangeProps ==
    /\ mounted
    /\ hud.gameOver
    /\ ~sim.gameRunning
    /\ \E name \in RideNames :
         /\ rideName' = name
         /\ RerunEffect(name)
    /\ UNCHANGED <<variant, draws, mounted, hud, pure, app>>

\* onExit / unmount: the effect's cleanup alone
Exit ==
    /\ mounted
    /\ mounted' = FALSE
    /\ sim' = [sim EXCEPT !.gameRunning = FALSE]
    /\ staleFrames' = staleFrames + (IF rafPending THEN 1 ELSE 0)
    /\ rafPending' = FALSE
    /\ env' = cleanup(env)
    /\ UNCHANGED <<variant, draws, rideName, hud, elapsed, inputs, horizon, obs, pure, app>>

Next ==
    \/ Frame
    \/ StaleFrame
    \/ KeyDown
    \/ KeyUp
    \/ TouchStart
    \/ TouchEnd
    \/ HandleRestart
    \/ ChangeProps
    \/ Exit

Spec == Init /\ [][Next]_vars

(* ------------------- the pure functions on their own ------------------ *)

\* names of up to MaxNameLen characters out of '<', 'O', 'Y' and U+1F697
PureChars == {60, 79, 89, 128663}
PureNames == UNION {[1..n -> PureChars] : n \in 0..MaxNameLen}

\* corners and sizes of the rectangles handed to rectanglesOverlap
RectCorner == (0 - MaxRect)..MaxRect
RectSize == 1..MaxRect

InitPure ==
    /\ variant = "fixed"
    /\ rideName = << >>
    /\ mounted = FALSE
    /\ env = NoEnv("missing")
    /\ sim = Unstarted(variant, rideName)
    /\ hud = NewHud
    /\ rafPending = FALSE
    /\ staleFrames = 0
    /\ elapsed = 0
    /\ inputs = 0
    /\ horizon = 0
    /\ draws = SpawnDraws(variant)
    /\ obs = NoFrame
    /\ pure = PureIdle
    /\ app = NewApp

\* two renders of the component with the same rideName
Tune ==
    /\ pure = PureIdle
    /\ \E name \in PureNames :
         pure' = [op |-> "tune", name |-> name, run1 |-> tuning(name),
                  run2 |-> tuning(name)]
    /\ UNCHANGED <<variant, draws, rideName, mounted, sim, hud, rafPending, staleFrames,
                   elapsed, inputs, horizon, obs, app, env>>

\* one call of rectanglesOverlap
Overlap ==
    /\ pure = PureIdle
    /\ \E x1 \in {0}, y1 \in {0}, w1 \in RectSize, h1 \in RectSize,
          x2 \in RectCorner, y2 \in RectCorner, w2 \in RectSize, h2 \in RectSize :
         pure' = [op |-> "overlap", x1 |-> x1, y1 |-> y1, w1 |-> w1, h1 |-> h1,
                  x2 |-> x2, y2 |-> y2, w2 |-> w2, h2 |-> h2,
                  result |-> rectanglesOverlap(x1, y1, w1, h1, x2, y2, w2, h2)]
    /\ UNCHANGED <<variant, draws, rideName, mounted, sim, hud, rafPending, staleFrames,
                   elapsed, inputs, horizon, obs, app, env>>

\* one call of spawnZombie, for each Math.random() draw k / RandDen
spawnZombie(v, d) ==
    IF v = "fixed" THEN spawnZombieFixed(d)
    ELSE IF v = "lane" THEN spawnZombieLane(d) ELSE spawnZombieFlat(d)

Place ==
    /\ pure = PureIdle
    /\ \E v \in Variants, d \in [1..3 -> 0..(RandDen - 1)] :
         /\ v = "fixed" => d[3] = 0
         /\ pure' = [op |-> "spawn", v |-> v, d |-> d, z |-> spawnZombie(v, d)]
    /\ UNCHANGED <<variant, draws, rideName, mounted, sim, hud, rafPending, staleFrames,
                   elapsed, inputs, horizon, obs, app, env>>

\* frame gaps of a 60 Hz and of a 30 Hz display, a slow frame and a pause, in ms
LoopGaps == {16, 17, 33, 250, 1700}

\* what a frame of the fixed-timestep loop with result r did: its delta, the
\* calls of update, the deltas handed to update and the accumulator it leaves
frameOf(gap, r) ==
    [dt |-> frameDt("fixed", gap), calls |-> r.calls, dts |-> r.dts,
     acc |-> r.s.accumulator]

\* the first three frames of a run of the fixed-timestep variant
Accumulate ==
    /\ pure = PureIdle
    /\ \E gs \in [1..3 -> LoopGaps] :
         \E r1 \in {loopFixed(NewSim("fixed", << >>), NewHud, gs[1],
                              <<QuietDraw("fixed")>>)} :
         \E r2 \in {loopFixed(render("fixed", r1.s).s, r1.h, gs[2],
                              <<QuietDraw("fixed")>>)} :
         \E r3 \in {loopFixed(render("fixed", r2.s).s, r2.h, gs[3],
                              <<QuietDraw("fixed")>>)} :
            pure' = [op |-> "loop", gs |-> gs,
                     frames |-> <<frameOf(gs[1], r1), frameOf(gs[2], r2),
                                  frameOf(gs[3], r3)>>]
    /\ UNCHANGED <<variant, draws, rideName, mounted, sim, hud, rafPending, staleFrames,
                   elapsed, inputs, horizon, obs, app, env>>

NextPure ==
    \/ Tune
    \/ Overlap
    \/ Place
    \/ Accumulate

SpecPure == InitPure /\ [][NextPure]_vars

\* a single run, from mount to crash: no restart, no exit.  Either a run
\* with steering and every spawn draw, or a long run that is left alone with
\* each zombie placed by the same draw, which is followed until the spawn
\* interval has come down to its floor.
InitPlay ==
    /\ variant \in Variants
    /\ rideName \in RideNames
    /\ mounted = TRUE
    /\ env = runEffect(NoEnv("ok"))
    /\ sim = NewSim(variant, rideName)
    /\ hud = NewHud
    /\ rafPending = TRUE
    /\ staleFrames = 0
    /\ elapsed = 0
    /\ obs = NoFrame
    /\ pure = PureIdle
    /\ app = NewApp
    /\ \/ /\ inputs = 0
          /\ horizon = PlayElapsed(variant)
          /\ draws = SpawnDraws(variant)
       \/ /\ variant # "fixed"
          /\ rideName = << >>
          /\ inputs = MaxInputs
          /\ horizon = LongSeconds * TimeScale
          /\ draws = {QuietDraw(variant)}

NextPlay ==
    \/ Frame
    \/ KeyDown
    \/ KeyUp
    \/ TouchStart
    \/ TouchEnd

SpecPlay == InitPlay /\ [][NextPlay]_vars

(* --------------------- the App and ImageUploader handlers ------------- *)

driveVars == <<variant, rideName, mounted, sim, hud, rafPending, staleFrames,
               elapsed, inputs, horizon, draws, obs, pure, env>>

\* the files offered to the file input
UploadFiles ==
    [type : {imagePng}, size : {maxFileSize - 1, maxFileSize, maxFileSize + 1}]
      \cup {[type |-> imageOnly, size |-> maxFileSize],
            [type |-> textPlain, size |-> maxFileSize + 1]}

RemoveAt(q, i) == SubSeq(q, 1, i - 1) \o SubSeq(q, i + 1, Len(q))

\* ImageUploader.handleFileChange; sel is event.target.files?.[0]
HandleFileChange ==
    /\ app.files < MaxFiles
    /\ \E sel \in {<< >>} \cup {<<f>> : f \in UploadFiles} :
         \E a \in {[app EXCEPT !.files = app.files + 1,
                               !.last = [op |-> "fileChange", file |-> sel]]} :
            app' = IF sel = << >> THEN a
                   ELSE IF checkFile(sel[1]) # << >>
                        THEN [a EXCEPT !.uploadError = checkFile(sel[1])]
                        ELSE [a EXCEPT !.uploadError = << >>,
                                       !.readers = Append(app.readers, sel[1]),
                                       !.lastValid = sel]
    /\ UNCHANGED driveVars

\* reader.onloadend: onImageSelect(reader.result), i.e. setSourceImage
ReaderLoadEnd ==
    /\ \E i \in 1..Len(app.readers), ok \in BOOLEAN :
         app' = [app EXCEPT !.sourceImage = dataURL(app.readers[i], ok),
                            !.readers = RemoveAt(app.readers, i),
                            !.readFailed = app.readFailed \/ ~ok,
                            !.last = [op |-> "loadEnd"]]
    /\ UNCHANGED driveVars

\* handleGenerate up to `await generateZombieCar(...)`
HandleGenerate ==
    /\ app.clicks < MaxClicks
    /\ \E a \in {[app EXCEPT !.clicks = app.clicks + 1]} :
         app' = IF app.sourceImage = << >>
                THEN [a EXCEPT !.error = <<noVehicle>>,
                               !.last = [op |-> "generate", called |-> FALSE]]
                ELSE [a EXCEPT !.loading = [isLoading |-> TRUE, message |-> initiating],
                               !.error = << >>,
                               !.generatedImage = << >>,
                               !.calls = Append(app.calls,
                                                [source |-> app.sourceImage[1],
                                                 stepIndex |-> 0]),
                               !.last = [op |-> "generate", called |-> TRUE]]
    /\ UNCHANGED driveVars

\* the setInterval callback of a call in flight, or of a call that failed
\* (its interval is never cleared)
IntervalTick ==
    /\ \/ \E i \in 1..Len(app.calls) :
            /\ app.calls[i].stepIndex < Len(steps)
            /\ app' = [app EXCEPT !.loading.message = steps[app.calls[i].stepIndex + 1],
                                  !.calls[i].stepIndex = app.calls[i].stepIndex + 1,
                                  !.last = [op |-> "tick"]]
       \/ \E i \in 1..Len(app.timers) :
            /\ app.timers[i] < Len(steps)
            /\ app' = [app EXCEPT !.loading.message = steps[app.timers[i] + 1],
                                  !.timers[i] = app.timers[i] + 1,
                                  !.last = [op |-> "tick"]]
    /\ UNCHANGED driveVars

\* generateZombieCar resolved: clearInterval, setGeneratedImage, finally
GenerateResolve ==
    /\ \E i \in 1..Len(app.calls) :
         app' = [app EXCEPT !.generatedImage = <<[zombified |-> app.calls[i].source]>>,
                            !.loading = [isLoading |-> FALSE, message |-> ""],
                            !.calls = RemoveAt(app.calls, i),
                            !.last = [op |-> "resolve"]]
    /\ UNCHANGED driveVars

\* what generateZombieCar fails with: an error with a message, with an empty
\* message, or a value without a message
Failures == {<<"The model is overloaded.">>, <<"">>, << >>}

\* err.message || "Garage malfunction. ..." with the default forgotten
catchMessage_noDefault(err) == IF err = << >> THEN "" ELSE err[1]
\* err.message || "Garage malfunction. Try uploading a smaller image."
catchMessage(err) ==
    IF err # << >> /\ err[1] # "" THEN err[1] ELSE malfunction

\* generateZombieCar failed: catch, finally.  clearInterval is skipped.
GenerateReject ==
    /\ \E i \in 1..Len(app.calls), err \in Failures :
         app' = [app EXCEPT !.error = <<catchMessage(err)>>,
                            !.loading = [isLoading |-> FALSE, message |-> ""],
                            !.timers = Append(app.timers, app.calls[i].stepIndex),
                            !.calls = RemoveAt(app.calls, i),
                            !.last = [op |-> "reject", err |-> err]]
    /\ UNCHANGED driveVars

\* handleDownload of a render whose generatedImage is img: link.click()
download(img) == IF img # << >> THEN 1 ELSE 0

HandleDownload ==
    /\ app.clicks < MaxClicks
    /\ app' = [app EXCEPT !.clicks = app.clicks + 1,
                          !.downloads = app.downloads + download(app.generatedImage),
                          !.last = [op |-> "download"]]
    /\ UNCHANGED driveVars

\* handleShareImage up to `await fetch(generatedImage)`
HandleShareImage ==
    /\ app.clicks < MaxClicks
    /\ \E a \in {[app EXCEPT !.clicks = app.clicks + 1]} :
         app' = IF app.generatedImage = << >>
                THEN [a EXCEPT !.last = [op |-> "share", started |-> FALSE]]
                ELSE [a EXCEPT !.sharing = Append(app.sharing, app.generatedImage),
                               !.last = [op |-> "share", started |-> TRUE]]
    /\ UNCHANGED driveVars

\* what the platform does to one handleShareImage: fetch and blob succeed,
\* navigator.share and navigator.canShare exist, canShare accepts the file,
\* navigator.share resolves
Platforms == [fetchOk : BOOLEAN, hasShare : BOOLEAN, hasCanShare : BOOLEAN,
              canShareFiles : BOOLEAN, shareOk : BOOLEAN]

\* the rest of handleShareImage with the catch block left empty
shareImage_noFallback(img, e) ==
    IF ~e.fetchOk THEN [shareCalls |-> 0, shared |-> 0, downloads |-> 0]
    ELSE IF e.hasShare /\ e.hasCanShare /\ e.canShareFiles
         THEN IF e.shareOk THEN [shareCalls |-> 1, shared |-> 1, downloads |-> 0]
              ELSE [shareCalls |-> 1, shared |-> 0, downloads |-> 0]
         ELSE [shareCalls |-> 0, shared |-> 0, downloads |-> download(img)]
\* the rest of handleShareImage, in the render whose generatedImage is img
shareImage(img, e) ==
    IF ~e.fetchOk THEN [shareCalls |-> 0, shared |-> 0, downloads |-> download(img)]
    ELSE IF e.hasShare /\ e.hasCanShare /\ e.canShareFiles
         THEN IF e.shareOk THEN [shareCalls |-> 1, shared |-> 1, downloads |-> 0]
              ELSE [shareCalls |-> 1, shared |-> 0, downloads |-> download(img)]
         ELSE [shareCalls |-> 0, shared |-> 0, downloads |-> download(img)]

ShareImageSettle ==
    /\ \E i \in 1..Len(app.sharing), e \in Platforms :
         \E r \in {shareImage(app.sharing[i], e)} :
            app' = [app EXCEPT !.shareCalls = app.shareCalls + r.shareCalls,
                               !.shared = app.shared + r.shared,
                               !.downloads = app.downloads + r.downloads,
                               !.sharing = RemoveAt(app.sharing, i),
                               !.last = [op |-> "shareSettled", platform |-> e]]
    /\ UNCHANGED driveVars

NextApp ==
    \/ HandleFileChange
    \/ ReaderLoadEnd
    \/ HandleGenerate
    \/ IntervalTick
    \/ GenerateResolve
    \/ GenerateReject
    \/ HandleDownload
    \/ HandleShareImage
    \/ ShareImageSettle

SpecApp == InitPure /\ [][NextApp]_vars

\* what the components have written to durable storage when a run ends: the
\* crash branch sets gameRunning and the game-over flag and pauses the engine
\* sound, and nothing in the source writes a result anywhere
persistedScores == << >>

(* ============================== properties ============================ *)

\* what the properties read off a state
SpawnIntervalOf(v, s) == IF v = "fixed" THEN s.spawnRate ELSE s.spawnInterval
SpawnTimerOf(v, s) == IF v = "fixed" THEN s.lastSpawn ELSE s.spawnTimer
SpawnFloor(v) == IF v = "fixed" THEN (3 * TimeScale) \div 10 ELSE (45 * TimeScale) \div 100
SpawnDecrement(v) == IF v = "fixed" THEN TimeScale \div 1000 ELSE (2 * TimeScale) \div 100
SpawnInitial(v) == IF v = "fixed" THEN (15 * TimeScale) \div 10 ELSE TimeScale
\* the speed that accel gains over t time units
SpeedGain(v, t) ==
    ((IF v = "fixed" THEN accelFixed ELSE accelVar) * t) \div (TimeScale \div SpeedScale)
\* the simulated time the ticks of the step to the next state cover
TickedTime ==
    IF elapsed' = elapsed THEN 0
    ELSE IF variant = "fixed" THEN obs'.ticks * step ELSE elapsed' - elapsed

\* C1: in the fixed-timestep variant healthVal is in [0,100] after every tick,
\* also when more than one zombie collides with the player in one tick.
C1_HealthInRangeFixed ==
    variant = "fixed" => (sim.healthVal >= 0 /\ sim.healthVal <= 100)

\* C2: in the lane-space and flat-road variants healthVal is in [0,100] after
\* every tick, also when several zombies overlap the car in one tick.
C2_HealthInRangeVar ==
    variant # "fixed" => (sim.healthVal >= 0 /\ sim.healthVal <= 100
                          /\ hud.health >= 0 /\ hud.health <= 100)

\* two zombies overlapped the car in the tick that took the last health
C2_TwoHitsInOneTick ==
    /\ variant = "flat"
    /\ obs.crashTick.hits >= 2
    /\ sim.healthVal = 0
    /\ ~sim.gameRunning

\* C3: speedVal starts at 0 and after every tick is in [0, maxSpeed], maxSpeed
\* being the maximum tuned from rideName; over the ticks of a frame it rises
\* by accel * dt per tick and stays at maxSpeed once it is reached.
C3_SpeedWithinTunedMax ==
    /\ sim.speedVal = 0
    /\ [][/\ sim'.maxSpeed = tunedMaxSpeed(variant, rideName)
          /\ sim'.speedVal >= 0
          /\ sim'.speedVal <= sim'.maxSpeed
          /\ sim'.speedVal = Min(sim.maxSpeed, sim.speedVal + SpeedGain(variant, TickedTime))
         ]_vars

\* a tick ran at full speed, long after full speed was reached
C3_AtMaxSpeed ==
    /\ sim.speedVal = sim.maxSpeed
    /\ sim.gameRunning
    /\ obs.ticks > 0
    /\ SpeedGain(variant, elapsed) >= 2 * sim.maxSpeed

\* C4: after every tick the lateral position is inside the track: playerX in
\* [-2,2] (fixed-timestep), carX in [leftEdge+10, rightEdge-carWidth-10]
\* (lane-space), carX in [carMinX, carMaxX] (flat-road), whatever is held.
C4_LateralWithinTrack ==
    /\ variant = "fixed" =>
         (sim.playerX >= (0 - 2) * LatScale /\ sim.playerX <= 2 * LatScale)
    /\ variant = "lane" =>
         (sim.carX >= leftEdgeCar + 10 * PxScale
          /\ sim.carX <= rightEdgeCar - carWidthLane - 10 * PxScale)
    /\ variant = "flat" => (sim.carX >= carMinX /\ sim.carX <= carMaxX)

\* the car stands at the left bound with steer-left still held
C4_HeldAtTheEdge ==
    /\ variant = "lane"
    /\ steerLeftVar(sim)
    /\ sim.carX = leftEdgeCar + 10 * PxScale
    /\ sim.gameRunning
    /\ obs.ticks > 0

\* the sum of the UTF-16 code units of a name's characters
RECURSIVE CharCodeSum(_)
CharCodeSum(n) ==
    IF n = << >> THEN 0
    ELSE (IF Head(n) < 65536 THEN Head(n)
          ELSE (55296 + ((Head(n) - 65536) \div 1024))
               + (56320 + ((Head(n) - 65536) % 1024)))
         + CharCodeSum(Tail(n))
BasicPlane(n) == \A i \in 1..Len(n) : n[i] < 65536
\* the multipliers, in hundredths, lie in their ranges and two renders agree
TuningInRange ==
    /\ pure.run1 = pure.run2
    /\ pure.run1.speedMultFixed >= 85 /\ pure.run1.speedMultFixed <= 115
    /\ pure.run1.widthMultFixed >= 90 /\ pure.run1.widthMultFixed <= 110
    /\ pure.run1.speedMultVar >= 90 /\ pure.run1.speedMultVar <= 120
    /\ pure.run1.tunedMaxSpeedFixed * 100 = 200 * pure.run1.speedMultFixed * SpeedScale
    /\ pure.run1.tunedMaxSpeedVar * 100 = 220 * pure.run1.speedMultVar * SpeedScale
    /\ pure.run1.tunedRoadWidth * 100 = 2000 * pure.run1.widthMultFixed

C6_NothingAfterCrash ==
    /\ sim.healthVal <= 0 => ~sim.gameRunning
    /\ hud.gameOver =>
         /\ ~sim.gameRunning
         /\ obs.crashTick.late = 0
         /\ sim.scoreVal = obs.crashTick.crashScore

\* C7: loop requests the next frame iff gameRunning is true after the frame's
\* update: a running game has its one frame pending, a finished game (crash
\* or cleanup) has none requested, and a frame left over from a cleaned-up
\* effect is never followed by another: the frames left over grow only by the
\* one frame that was pending when an effect was cleaned up.
C7_FramePendingIffRunning ==
    /\ [](rafPending <=> sim.gameRunning)
    /\ [][staleFrames' > staleFrames
            => /\ staleFrames' = staleFrames + 1
               /\ rafPending /\ sim.gameRunning
               /\ (mounted' # mounted \/ sim' = NewSim(variant, rideName'))]_vars

\* a frame ended in a crash and requested nothing
C7_StoppedAtCrash ==
    /\ hud.gameOver
    /\ obs.crashTick.ran
    /\ ~sim.gameRunning
    /\ ~rafPending

\* C8: handleRestart starts a run with the whole simulation state at its
\* defaults and the HUD reset, nothing of the previous run is carried over,
\* and a frame of an earlier effect changes neither simulation nor HUD.
C8_RestartResetsEverything ==
    [][/\ hud'.runId # hud.runId =>
            /\ hud.gameOver
            /\ hud' = [speed |-> 0, health |-> 100, score |-> 0, gameOver |-> FALSE,
                       runId |-> hud.runId + 1]
            /\ sim'.speedVal = 0 /\ sim'.healthVal = 100 /\ sim'.scoreVal = 0
            /\ sim'.playerX = 0 /\ sim'.position = 0 /\ sim'.accumulator = 0
            /\ sim'.carX = (IF variant = "fixed" THEN 0
                            ELSE IF variant = "lane" THEN roadCenterX - carWidthLane \div 2
                            ELSE roadX + roadWidth \div 2 - carWidthFlat \div 2)
            /\ SpawnTimerOf(variant, sim') = 0
            /\ SpawnIntervalOf(variant, sim') = SpawnInitial(variant)
            /\ sim'.zombies = << >>
            /\ sim'.keys = {} /\ ~sim'.touchLeft /\ ~sim'.touchRight
            /\ sim'.gameRunning
            /\ sim'.maxSpeed = sim.maxSpeed
            /\ sim' = NewSim(variant, rideName)
            /\ rafPending'
            /\ (~sim.gameRunning => staleFrames' = staleFrames)
       /\ staleFrames' < staleFrames => (sim' = sim /\ hud' = hud)
      ]_vars

\* the run right after a restart
C8_Restarted ==
    /\ hud.runId = 1
    /\ elapsed = 0
    /\ obs = NoFrame
    /\ sim.gameRunning
    /\ rafPending

\* C9: the spawn interval never rises and is never below its floor (0.3 s
\* fixed-timestep, 0.45 s otherwise); a spawn happens only in a tick whose
\* timer has reached the interval, at most once per tick, resets the timer to
\* 0 and lowers the interval by the fixed amount, down to the floor.
C9_SpawnInterval ==
    /\ SpawnIntervalOf(variant, sim) = SpawnInitial(variant)
    /\ [][/\ SpawnIntervalOf(variant, sim') >= SpawnFloor(variant)
          /\ SpawnIntervalOf(variant, sim') <= SpawnIntervalOf(variant, sim)
          /\ elapsed' # elapsed =>
               /\ obs'.spawns <= obs'.ticks
               /\ Len(sim'.zombies) <= Len(sim.zombies) + obs'.spawns
               /\ obs'.spawns = 0 =>
                    /\ SpawnIntervalOf(variant, sim') = SpawnIntervalOf(variant, sim)
                    /\ SpawnTimerOf(variant, sim') = SpawnTimerOf(variant, sim) + TickedTime
               /\ obs'.spawns = 1 =>
                    /\ obs'.spawnTick.iSpawn = SpawnIntervalOf(variant, sim)
                    /\ obs'.spawnTick.tSpawn >= obs'.spawnTick.iSpawn
                    /\ obs'.spawnTick.tAfter = 0
                    /\ SpawnIntervalOf(variant, sim') =
                         Max(SpawnFloor(variant),
                             SpawnIntervalOf(variant, sim) - SpawnDecrement(variant))
         ]_vars

\* a spawn brought the interval down onto its floor
C9_ReachedTheFloor ==
    /\ obs.spawns = 1
    /\ obs.spawnTick.iSpawn - SpawnDecrement(variant) < SpawnFloor(variant)
    /\ obs.spawnTick.iSpawn > SpawnFloor(variant)
    /\ SpawnIntervalOf(variant, sim) = SpawnFloor(variant)

\* C10: rectanglesOverlap is true iff the rectangles share interior on both
\* axes; for rectangles that only touch along an edge or at a corner it is
\* false.
C10_TouchingIsNoOverlap ==
    pure.op = "overlap" =>
        (pure.result <=>
            /\ pure.x1 < pure.x2 + pure.w2
            /\ pure.x2 < pure.x1 + pure.w1
            /\ pure.y1 < pure.y2 + pure.h2
            /\ pure.y2 < pure.y1 + pure.h1)

\* C11: for every draw a spawned zombie lies strictly inside the road: x
\* strictly between -1 and 1 (fixed-timestep), lane in [-0.8, 0.8) (lane-space),
\* the box [x, x + size] inside [roadX + 5%, roadX + 95%] of the road width
\* (flat-road).
C11_SpawnedInsideTheRoad ==
    pure.op = "spawn" =>
        /\ pure.v = "fixed" => 0 - LatScale < pure.z.x /\ pure.z.x < LatScale
        /\ pure.v = "lane" => 0 - 80 <= pure.z.lane /\ pure.z.lane < 80
        /\ pure.v = "flat" =>
              /\ pure.z.x >= roadX + (roadWidth * 5) \div 100
              /\ pure.z.x + pure.z.size <= roadX + (roadWidth * 95) \div 100

\* C12: a zombie is spawned beyond the visible horizon and cannot damage the
\* player before it has come into view: no zombie collides in the tick in
\* which it was spawned, wherever the player is.
C12_NoHitInSpawnTick == obs.freshHits = 0

\* C13 (Scenario B): in the lane-space and flat-road variants (25 damage per
\* hit), a tick that starts with healthVal = 25 and in which exactly one zombie
\* overlaps the car ends with healthVal = 0, that zombie removed, gameRunning
\* false and the game-over flag set.
C13_LastHitEndsTheRun ==
    [][(/\ variant # "fixed"
        /\ elapsed' # elapsed
        /\ sim.healthVal = 25
        /\ obs'.hitTick.hits = 1)
       => /\ sim'.healthVal = 0
          /\ hud'.health = 0
          /\ ~sim'.gameRunning
          /\ hud'.gameOver
          /\ Len(sim'.zombies)
                = Len(sim.zombies) + obs'.spawns - obs'.hitTick.passed - 1]_vars

\* a run that was ended by a single collision
C13_CrashedByOneHit ==
    /\ variant # "fixed"
    /\ obs.crashTick.ran
    /\ obs.crashTick.hits = 1
    /\ sim.healthVal = 0
    /\ ~sim.gameRunning
    /\ hud.gameOver

\* C14 (Scenario A): an undamaged run for rideName "Mason" that has covered
\* the track length of 800 units is finished by completion, with distance
\* exactly 800 (the run leaves Running without a crash).
C14_FinishedAtTrackLength ==
    (/\ variant = "fixed"
     /\ mounted
     /\ nameHash(rideName) = nameHash(Mason)
     /\ sim.healthVal = 100
     /\ sim.position >= 800 * DistScale)
    => /\ ~sim.gameRunning
       /\ sim.position = 800 * DistScale

\* C15: when a run is over a ScoreEntry has been recorded, and the persisted
\* leaderboard has at most 20 entries, sorted by descending distance, entries
\* of equal distance in insertion order.
C15_FinishedRunIsRecorded ==
    /\ hud.gameOver => Len(persistedScores) >= 1
    /\ Len(persistedScores) <= 20
    /\ \A i, j \in 1..Len(persistedScores) :
          i < j => \/ persistedScores[i].distance > persistedScores[j].distance
                   \/ /\ persistedScores[i].distance = persistedScores[j].distance
                      /\ persistedScores[i].seq < persistedScores[j].seq

\* the rules of the uploader, as the claim words them
AcceptedType(f) == Len(f.type) >= 6 /\ SubSeq(f.type, 1, 6) = <<"i", "m", "a", "g", "e", "/">>
AcceptedFile(f) == AcceptedType(f) /\ f.size <= 5 * 1024 * 1024

\* C16: handleFileChange reads a file (and so forwards it with onImageSelect)
\* only if its type starts with "image/" and its size is at most 5 MiB, the
\* boundary accepted; for any other file it sets the message of the rule
\* violated, the type first, starts no read and leaves the source image alone;
\* the source image is never made from a file that breaks a rule.
C16_OnlyValidFilesAreForwarded ==
    /\ [](\A i \in 1..Len(app.readers) : AcceptedFile(app.readers[i]))
    /\ [](app.sourceImage # << >>
            => AcceptedFile([type |-> app.sourceImage[1].mime,
                             size |-> app.sourceImage[1].bytes]))
    /\ [][(app'.last.op = "fileChange" /\ app'.last.file # << >>)
          => IF AcceptedFile(app'.last.file[1])
             THEN /\ app'.uploadError = << >>
                  /\ app'.readers = Append(app.readers, app'.last.file[1])
             ELSE /\ app'.uploadError
                        = <<IF AcceptedType(app'.last.file[1]) THEN tooLarge
                            ELSE notAnImage>>
                  /\ app'.readers = app.readers
                  /\ app'.sourceImage = app.sourceImage]_vars

\* an image one byte over the limit was turned down while an earlier image
\* of exactly 5 MiB is the source image
C16_OversizedTurnedDown ==
    /\ app.last.op = "fileChange"
    /\ app.last.file = <<[type |-> imagePng, size |-> maxFileSize + 1]>>
    /\ app.uploadError = <<tooLarge>>
    /\ app.readers = << >>
    /\ app.sourceImage = <<[mime |-> imagePng, bytes |-> maxFileSize]>>

\* C17: a failed generation call is reported as one error message (the
\* failure's message, or the default text when it has none), sets no generated
\* image and ends with isLoading false; when no call is in flight isLoading is
\* false; handleGenerate without a source image sets an error and calls
\* nothing.
C17_GenerationFailureIsReported ==
    /\ [](app.calls = << >> => ~app.loading.isLoading)
    /\ [][app'.last.op = "reject"
          => /\ app'.error
                  = <<IF app'.last.err # << >> /\ app'.last.err[1] # ""
                      THEN app'.last.err[1]
                      ELSE "Garage malfunction. Try uploading a smaller image.">>
             /\ app'.generatedImage = app.generatedImage
             /\ ~app'.loading.isLoading
             /\ Len(app'.calls) = Len(app.calls) - 1]_vars
    /\ [][(app'.last.op = "generate" /\ app.sourceImage = << >>)
          => /\ app'.error = <<noVehicle>>
             /\ app'.calls = app.calls
             /\ app'.loading = app.loading
             /\ app'.generatedImage = app.generatedImage]_vars

\* a call failed with an empty message and the default text is shown
C17_FailedWithoutMessage ==
    /\ app.last.op = "reject"
    /\ app.last.err = <<"">>
    /\ app.error = <<malfunction>>
    /\ app.generatedImage = << >>
    /\ ~app.loading.isLoading

\* C18: handleShareImage with a generated image calls navigator.share with the
\* file when navigator.share and canShare exist and canShare accepts the file,
\* and ends either shared or downloaded, exactly one of the two, downloaded
\* also when fetching or sharing throws; without a generated image it does
\* neither.
C18_SharedOrDownloaded ==
    /\ [][app'.last.op = "shareSettled"
          => LET e == app'.last.platform
                 native == e.fetchOk /\ e.hasShare /\ e.hasCanShare /\ e.canShareFiles
             IN  /\ app'.shareCalls - app.shareCalls = (IF native THEN 1 ELSE 0)
                 /\ app'.shared - app.shared = (IF native /\ e.shareOk THEN 1 ELSE 0)
                 /\ (app'.shared - app.shared) + (app'.downloads - app.downloads) = 1]_vars
    /\ [][(app'.last.op = "share" /\ app.generatedImage = << >>)
          => /\ app'.sharing = app.sharing
             /\ app'.shareCalls = app.shareCalls
             /\ app'.shared = app.shared
             /\ app'.downloads = app.downloads]_vars

\* navigator.share was called and threw, and the image was downloaded
C18_ShareThrewThenDownloaded ==
    /\ app.last.op = "shareSettled"
    /\ app.last.platform.fetchOk
    /\ ~app.last.platform.shareOk
    /\ app.shareCalls = 1
    /\ app.shared = 0
    /\ app.downloads = 1

\* C19: once the component has been left (the effect's cleanup has run) no
\* frame is scheduled, every listener attached on entry is detached, and
\* every sound made on entry, the engine loop and the zombie cue, is stopped.
C19_EverythingReleasedOnExit ==
    ~mounted => /\ ~rafPending
                /\ ~sim.gameRunning
                /\ env.listeners = {}
                /\ env.engine # "playing"
                /\ env.zombie # "playing"

\* C20: when the canvas is missing or gives no 2D context the effect returns
\* at once: no listener attached, no Audio object made, no frame scheduled
\* or left over, no run started, the HUD as first rendered.
C20_AbortedEffectLeavesNothing ==
    env.canvas # "ok" => /\ env.listeners = {}
                         /\ env.engine = "none"
                         /\ env.zombie = "none"
                         /\ ~rafPending
                         /\ staleFrames = 0
                         /\ sim = Unstarted(variant, rideName)
                         /\ hud = NewHud
                         /\ obs = NoFrame

\* a component whose canvas gave no 2D context, left again
C20_NoContext ==
    /\ ~mounted
    /\ env.canvas = "noContext"
    /\ env.listeners = {}
    /\ ~sim.gameRunning

\* C21: the simulated time one frame advances never exceeds the clamp,
\* however long the gap since the last frame: in the variable-timestep
\* variants one update with dt <= 0.05 s (read off the spawn timer), in the
\* fixed-timestep variant whole steps amounting to less than 1 s plus a step.
C21_FrameDeltaClamped ==
    [][elapsed' # elapsed
       => IF variant = "fixed"
          THEN obs'.ticks * step < TimeScale + step
          ELSE /\ obs'.ticks = 1
               /\ (IF obs'.spawns > 0 THEN obs'.spawnTick.tSpawn ELSE sim'.spawnTimer)
                     - sim.spawnTimer <= (5 * TimeScale) \div 100]_vars

\* a frame 1.7 s after the last one has run 60 steps, one second
C21_LongGapClamped ==
    /\ variant = "fixed"
    /\ obs.ticks = 60
    /\ elapsed >= 2 * TimeScale

\* C22: a tick moves the player (acceleration, steering, clamp) and then each
\* zombie before it tests the zombie against the player, so the test sees the
\* positions after this tick's movement: after a tick no zombie that is still
\* in play is in collision with the player where both now are.
C22_HitsDecidedAfterMovement ==
    \A i \in 1..Len(sim.zombies) :
        LET z == sim.zombies[i]
        IN  IF variant = "fixed"
            THEN ~(/\ z.offsetZ < cameraHeight * DistScale
                   /\ Abs(z.x - sim.playerX) < (3 * LatScale) \div 10)
            ELSE ~rectanglesOverlap(sim.carX, carYOf(variant), carWidthOf(variant),
                                    carHeightOf(variant),
                                    zombieXOf(variant, z), z.y, z.size, z.size)

\* a car that has been steered off its starting place was hit, with other
\* zombies still on the road
C22_HitWhileSteering ==
    /\ variant # "fixed"
    /\ obs.hitTick.hits >= 1
    /\ sim.carX # (IF variant = "lane" THEN carX0Lane ELSE carX0Flat)
    /\ sim.zombies # << >>

\* C23: render leaves every variable of the simulation as it found it (a frame
\* that only renders, its update having returned at once, changes neither the
\* simulation nor the HUD), and a frame, which reads the keys and the touch
\* flags, leaves them as the handlers set them.
C23_RenderAndUpdateOnlyRead ==
    [][(inputs' = inputs /\ hud'.runId = hud.runId /\ mounted' = mounted)
       => /\ sim'.keys = sim.keys
          /\ sim'.touchLeft = sim.touchLeft
          /\ sim'.touchRight = sim.touchRight
          /\ (staleFrames' # staleFrames => sim' = sim /\ hud' = hud)]_vars
C23_RenderedAfterCleanup ==
    /\ ~mounted /\ staleFrames = 0 /\ sim.healthVal > 0
    /\ sim.zombies # << >> /\ sim.speedVal > 0
    /\ sim.keys # {}
\* C24: in the fixed-timestep variant update is called with the fixed step
\* only; every frame leaves 0 <= accumulator < step and calls update once for
\* each whole step in the accumulator plus the clamped delta, so the calls of
\* a run are the whole steps in the total clamped time however it was split.
C24_WholeStepsOfTheAccumulator ==
    pure.op = "loop" =>
        LET fs == pure.frames
            accBefore(i) == IF i = 1 THEN 0 ELSE fs[i - 1].acc
        IN  /\ \A i \in 1..Len(fs) :
                  /\ fs[i].dts \subseteq {step}
                  /\ 0 <= fs[i].acc /\ fs[i].acc < step
                  /\ fs[i].calls = (accBefore(i) + fs[i].dt) \div step
            /\ fs[1].calls + fs[2].calls + fs[3].calls
                  = (fs[1].dt + fs[2].dt + fs[3].dt) \div step
C24_StepCarriedOver ==
    /\ pure.op = "loop"
    /\ pure.frames[1].calls = 0 /\ pure.frames[1].acc > 0
    /\ pure.frames[2].calls = 1
    /\ pure.frames[3].calls = 60 /\ pure.frames[3].acc > 0
\* C25: a zombie leaves play either by passing the player without collision,
\* which awards a bonus and does no damage, or by colliding, which does the
\* damage of one hit and awards no bonus: the filter of a tick adds points to
\* the score exactly when a zombie passed in that tick, and the health goes
\* down by one hit's damage for each collision.
C25_BonusForPassingOnly ==
    \A g \in {obs.spawnTick, obs.hitTick, obs.crashTick} :
        g.ran => /\ (g.bonus > 0) = (g.passed > 0)
                 /\ g.dodged = g.passed
\* C26: within one run the score is never negative and never goes down, the
\* health never goes up and changes only in a frame with a collision, and
\* the health is always 100 minus a whole number of hits' damage.
C26_ScoreUpHealthDown ==
    /\ [](/\ sim.scoreVal >= 0
          /\ sim.healthVal <= 100
          /\ (100 - sim.healthVal) % (IF variant = "fixed" THEN 20 ELSE 25) = 0)
    /\ [][/\ sim'.scoreVal >= sim.scoreVal
          /\ sim'.healthVal <= sim.healthVal
          /\ (sim'.healthVal # sim.healthVal => obs'.hitTick.hits >= 1)]_vars
C26_HitTwiceAndScoring ==
    /\ variant # "fixed" /\ sim.healthVal = 50 /\ sim.gameRunning
    /\ sim.scoreVal > 25 * ScoreScaleV
\* C27: while the effect has a run, gameRunning is false exactly when the
\* health is at or below zero or the cleanup has run; the game-over flag is
\* raised only by a frame in which a collision took the health to the floor.
C27_StoppedByCrashOrCleanup ==
    /\ [](effectRuns(env.canvas)
            => (~sim.gameRunning) = (sim.healthVal <= 0 \/ ~mounted))
    /\ [][(hud'.gameOver /\ ~hud.gameOver)
            => /\ sim'.healthVal <= 0
               /\ obs'.crashTick.hits >= 1
               /\ elapsed' # elapsed]_vars
C27_CrashedOnTheRoad ==
    /\ variant = "fixed" /\ mounted /\ hud.gameOver
    /\ ~sim.gameRunning /\ sim.healthVal <= 0
\* C28: the progress-message timer of a generation is stopped when the call
\* settles, by success or by failure: no timer outlives its call, so once
\* every call has settled the loading state stays {isLoading: false,
\* message: ''}, and a new attempt never finds a timer of an earlier one.
C28_TimerStoppedWhenSettled ==
    /\ app.timers = << >>
    /\ (app.calls = << >> => app.loading = [isLoading |-> FALSE, message |-> ""])
\* C29: once the reads of the files selected have all completed, in whatever
\* order, the source image is the image of the valid file selected last.
C29_LastSelectedIsTheSource ==
    (app.readers = << >> /\ app.lastValid # << >> /\ ~app.readFailed)
        => app.sourceImage = dataURL(app.lastValid[1], TRUE)
\* C30: the game-over overlay agrees with the simulation: while the component
\* is mounted on a run, the gameOver flag is up only if the current run has
\* been ended by a crash, so it is down while a run started by the effect
\* re-running is running, and the health shown is the health of that run.
C30_OverlayAgreesWithTheRun ==
    (mounted /\ effectRuns(env.canvas))
        => /\ hud.gameOver => (~sim.gameRunning /\ sim.healthVal <= 0)
           /\ hud.health = sim.healthVal
====
